---- MODULE Spec2Model ----
(***************************************************************************)
(* Model of the WebSocket signaling relay of src/server.js (first module,  *)
(* lines 1-215): the clients and rooms registries, the join / leave /      *)
(* offer / answer / ice-candidate message handler, the close handler, and  *)
(* the broadcast and cleanupClient helpers.                                *)
(*                                                                         *)
(* JavaScript objects are functions from key strings to values; a key that *)
(* is not in the domain is an absent property (reads give Undefined).      *)
(***************************************************************************)
EXTENDS Integers, Sequences, FiniteSets, TLC

(* ------------------------------ bounds --------------------------------- *)
MaxConns == 2

Conns == {"c" \o ToString(i) : i \in 1..MaxConns}

(* ------------------------- JavaScript values --------------------------- *)
Undefined == "<undefined>"
Null == "<null>"

Truthy(v) == v \notin {Undefined, Null, ""}

Get(o, k) == IF k \in DOMAIN o THEN o[k] ELSE Undefined

\* const { a, b, ...rest } = o
Rest(o, ks) == [k \in (DOMAIN o \ ks) |-> o[k]]

\* { ...a, ...b }: the properties of b override those of a
Spread(a, b) == b @@ a

WithOpt(o, k, v) == IF v = Undefined THEN o ELSE (k :> v) @@ o

(* ------------------------------ inputs --------------------------------- *)
ConfiguredSecret == "s3cret"
RoomNames == {"r1", "r2"}
Unparsable == [unparsable |-> TRUE]

\* join: every room with the right secret, and one join each with a wrong
\* secret, with no secret and with no roomId
JoinMsgs ==
  {[type |-> "join", roomId |-> r, secret |-> ConfiguredSecret] : r \in RoomNames}
  \cup {[type |-> "join", roomId |-> "r1", secret |-> "wrong"],
        [type |-> "join", roomId |-> "r1"],
        [type |-> "join", secret |-> ConfiguredSecret]}

\* offer / answer / ice-candidate: directed at every connection id and
\* undirected, one with a caller-supplied `from`, one through the `ice`
\* alias, one with neither sdp nor candidate
RelayMsgs ==
  {WithOpt([type |-> "offer", sdp |-> "X"], "toSocketId", x) :
     x \in Conns \cup {Undefined}}
  \cup {[type |-> "offer", sdp |-> "X", from |-> "c1"],
        [type |-> "answer", sdp |-> "Y", toSocketId |-> "c1", from |-> "c1"],
        [type |-> "ice", candidate |-> "K"],
        [type |-> "ice-candidate"]}

OtherMsgs == {[type |-> "leave"], [type |-> "bogus"], [roomId |-> "r1"]}

Msgs == JoinMsgs \cup RelayMsgs \cup OtherMsgs

(* ------------------------------- state --------------------------------- *)
VARIABLES
  SIGNALING_SECRET,  \* server.js:6
  readyState,        \* ws.readyState of every connection ("NONE" before accept)
  wssClients,        \* wss.clients, in insertion order
  clients,           \* server.js:43, ws -> {id, roomId}
  rooms,             \* server.js:44, roomId -> Set of socket ids
  roomKeys,          \* key order of the rooms Map
  out,               \* envelopes sent by the last handler, in order
  last,              \* the last event handled and how it ended
  crashed,           \* an uncaught exception terminated the process
  variant,             \* bridge: "config" (server.cjs) or "fixed" (part_000:123)
  wsState,             \* bridge: ws.readyState of the browser connection
  unitySocket,         \* server.cjs:39, 0 for null
  sockets,             \* the net.Socket objects created, in creation order
  unityMessageBuffers, \* server.cjs:34, socket -> text not yet framed
  wsSent,              \* messages the last bridge handler sent to the browser
  written,             \* what was written to the backend sockets, in order
  dataEvents,          \* number of data events so far
  bridgeLast,          \* the last bridge event handled
  framerFed,           \* framer run: the bytes fed so far
  framerBuffer,        \* framer run: the stored buffer
  framerOut,           \* framer run: the messages sent so far
  sioSecret,           \* socket.io variant: SIGNALING_SECRET, server.js:294
  sioState,            \* socket.io variant: each socket, "NONE" before it connects
  sioAdapter,          \* socket.io variant: the adapter's rooms, name -> socket ids
  sioRooms,            \* socket.io variant: rooms, server.js:342
  sioRoomKeys,         \* socket.io variant: key order of the rooms Map
  sioOut,              \* socket.io variant: what the last handler emitted, in order
  sioLast              \* socket.io variant: the last event handled

relayState == <<SIGNALING_SECRET, readyState, wssClients, clients, rooms,
                roomKeys, out, last>>

relayVars == <<relayState, crashed>>

bridgeVars == <<variant, wsState, unitySocket, sockets, unityMessageBuffers,
                wsSent, written, dataEvents, bridgeLast>>

framerVars == <<framerFed, framerBuffer, framerOut>>

sioVars == <<sioSecret, sioState, sioAdapter, sioRooms, sioRoomKeys, sioOut,
             sioLast>>

vars == <<relayVars, bridgeVars, framerVars, sioVars>>

\* the socket id assigned at accept time is unique per connection
NewSocketId(c) == c

RemoveKey(f, k) == [x \in (DOMAIN f \ {k}) |-> f[x]]
RemoveElem(s, e) == SelectSeq(s, LAMBDA x : x # e)

(* ----------------------------- wire format ---------------------------- *)
\* JSON.stringify and JSON.parse: a text is the value it spells.  The
\* values the relay serialises are strings, arrays and objects of them, on
\* which JSON.parse inverts JSON.stringify.
stringify(value) == [json |-> value]
parse(text) == text.json

\* JSON.stringify({ type, payload })
Encode(type, payload) == stringify([type |-> type, payload |-> payload])

(* --------------------------- sendToClient ------------------------------ *)
sendToClient(rs, ws, type, payload) ==
  IF rs[ws] = "OPEN"
    THEN <<[to |-> ws, type |-> type, payload |-> payload]>>
    ELSE <<>>

(* ----------------------------- broadcast ------------------------------- *)
\* the same test without the exclusion of the sender
BroadcastTarget_WithSender(rs, cl, senderId, roomId, toSocketId, ws) ==
  /\ rs[ws] = "OPEN"
  /\ ws \in DOMAIN cl
  /\ cl[ws].roomId = roomId
  /\ Truthy(toSocketId) => cl[ws].id = toSocketId

\* the same test with the exclusion comparing against the wrong variable
BroadcastTarget_WrongVariable(rs, cl, senderId, roomId, toSocketId, ws) ==
  /\ rs[ws] = "OPEN"
  /\ ws \in DOMAIN cl
  /\ cl[ws].roomId = roomId
  /\ IF Truthy(toSocketId)
       THEN cl[ws].id = toSocketId
       ELSE cl[ws].id # toSocketId

BroadcastTarget(rs, cl, senderId, roomId, toSocketId, ws) ==
  /\ rs[ws] = "OPEN"
  /\ ws \in DOMAIN cl
  /\ cl[ws].roomId = roomId
  /\ IF Truthy(toSocketId)
       THEN cl[ws].id = toSocketId
       ELSE cl[ws].id # senderId

broadcast(rms, cl, wc, rs, senderId, roomId, type, payload, toSocketId) ==
  IF roomId \notin DOMAIN rms THEN <<>>
  ELSE LET targets == SelectSeq(wc, LAMBDA ws :
                        BroadcastTarget(rs, cl, senderId, roomId, toSocketId, ws))
       IN [i \in 1..Len(targets) |->
            [to |-> targets[i], type |-> type,
             payload |-> Spread([from |-> senderId], payload)]]

(* --------------------------- cleanupClient ----------------------------- *)
\* Array.from(rooms.keys()).find(key => rooms.get(key).has(socketId))
FindRoomOf(rms, rk, socketId) ==
  LET hits == SelectSeq(rk, LAMBDA key : socketId \in rms[key])
  IN IF Len(hits) > 0 THEN hits[1] ELSE Undefined

\* s.delete(socketId), and the same line with the removal lost
LeaveSet_Noop(s, socketId) == s
LeaveSet(s, socketId) == s \ {socketId}

\* if (s.size > 0), and the same test off by one
ShouldNotify_OffByOne(s) == Cardinality(s) > 1
ShouldNotify(s) == Cardinality(s) > 0

\* if (s.size === 0); a cleanup that never deletes the entry
ShouldDelete_Never(s) == FALSE
\* the same test off by one: the entry is dropped with a member left in it
ShouldDelete_OffByOne(s) == Cardinality(s) <= 1
ShouldDelete(s) == Cardinality(s) = 0

Step(name, room, removed) == [step |-> name, room |-> room, removed |-> removed]

\* Result: the rooms Map afterwards, the envelopes sent, the steps taken in
\* order (with the room, and for "remove" whether s.delete found the id) and
\* whether the call threw: rooms.get(roomToLeave) is undefined when the room
\* has no entry, and s.delete then raises a TypeError.
cleanupClient(rms, rk, cl, wc, rs, socketId, roomId) ==
  LET roomToLeave == IF Truthy(roomId) THEN roomId
                     ELSE FindRoomOf(rms, rk, socketId)
      same == [rooms |-> rms, roomKeys |-> rk, out |-> <<>>,
               steps |-> <<>>, threw |-> FALSE]
  IN IF ~Truthy(roomToLeave) THEN same
     ELSE IF roomToLeave \notin DOMAIN rms THEN [same EXCEPT !.threw = TRUE]
     ELSE LET removed == socketId \in rms[roomToLeave]
              s == LeaveSet(rms[roomToLeave], socketId)
              rms1 == [rms EXCEPT ![roomToLeave] = s]
              notify == ShouldNotify(s)
              drop == ShouldDelete(s)
          IN [rooms |-> IF drop THEN RemoveKey(rms1, roomToLeave) ELSE rms1,
              roomKeys |-> IF drop THEN RemoveElem(rk, roomToLeave) ELSE rk,
              out |-> IF notify
                        THEN broadcast(rms1, cl, wc, rs, socketId, roomToLeave,
                                       "peer-left", [socketId |-> socketId],
                                       Undefined)
                        ELSE <<>>,
              steps |-> <<Step("remove", roomToLeave, removed)>>
                        \o (IF notify
                              THEN <<Step("peer-left", roomToLeave, removed)>>
                              ELSE <<>>)
                        \o (IF drop
                              THEN <<Step("delete", roomToLeave, removed)>>
                              ELSE <<>>),
              threw |-> FALSE]

(* ------------------------ ws.on("message") ----------------------------- *)
\* What a handler leaves behind: both registries, the envelopes it sent, the
\* cleanupClient steps it ran, and how it ended ("ok", "caught": an exception
\* reached the handler's catch block, "uncaught": it left the handler).
Outcome(rms, rk, cl, o, st, e) ==
  [rooms |-> rms, roomKeys |-> rk, clients |-> cl, out |-> o, steps |-> st,
   err |-> e]

\* if (!roomId), and a test that only catches null
RoomIdMissing_OnlyNull(roomId) == roomId = Null
RoomIdMissing(roomId) == ~Truthy(roomId)

\* if (SIGNALING_SECRET && secret !== SIGNALING_SECRET), and a test that lets
\* a join without secret through
SecretRejected_MissingAllowed(secretCfg, secret) ==
  Truthy(secretCfg) /\ Truthy(secret) /\ secret # secretCfg
SecretRejected(secretCfg, secret) == Truthy(secretCfg) /\ secret # secretCfg

\* if (!rooms.has(roomId)) rooms.set(roomId, new Set());
\* rooms.get(roomId).add(clientInfo.id);
JoinRoom(rms, roomId, id) ==
  LET rms1 == IF roomId \notin DOMAIN rms THEN (roomId :> {}) @@ rms ELSE rms
  IN [rms1 EXCEPT ![roomId] = @ \cup {id}]

\* Array.from(rooms.get(roomId)).filter(id => id !== clientInfo.id), as the
\* set of its elements, and the same list without the filter
Participants_Unfiltered(members, id) == members
Participants(members, id) == {m \in members : m # id}

HandleJoin(secretCfg, rms, rk, cl, wc, rs, ws, payload) ==
  LET clientInfo == cl[ws]
      roomId == Get(payload, "roomId")
      secret == Get(payload, "secret")
      unchanged(o, e) == Outcome(rms, rk, cl, o, <<>>, e)
  IN IF RoomIdMissing(roomId)
       THEN unchanged(sendToClient(rs, ws, "error",
                                   [message |-> "roomId required"]), "ok")
     ELSE IF SecretRejected(secretCfg, secret)
       THEN unchanged(sendToClient(rs, ws, "error",
                                   [message |-> "invalid secret"]), "ok")
     ELSE LET left == cleanupClient(rms, rk, cl, wc, rs,
                                    clientInfo.id, clientInfo.roomId)
          IN IF left.threw THEN unchanged(<<>>, "caught")
             ELSE LET fresh == roomId \notin DOMAIN left.rooms
                      rk1 == IF fresh THEN Append(left.roomKeys, roomId)
                             ELSE left.roomKeys
                      rms2 == JoinRoom(left.rooms, roomId, clientInfo.id)
                      cl1 == [cl EXCEPT ![ws].roomId = roomId]
                      participants == Participants(rms2[roomId], clientInfo.id)
                  IN Outcome(rms2, rk1, cl1,
                       left.out
                       \o broadcast(rms2, cl1, wc, rs, clientInfo.id, roomId,
                                    "peer-joined", [socketId |-> clientInfo.id],
                                    Undefined)
                       \o sendToClient(rs, ws, "joined",
                            [roomId |-> roomId, participants |-> participants]),
                       left.steps, "ok")

HandleRelay(rms, rk, cl, wc, rs, ws, signalingEvent, payload) ==
  LET clientInfo == cl[ws]
      toSocketId == Get(payload, "toSocketId")
      restPayload == Rest(payload, {"toSocketId"})
      roomId == clientInfo.roomId
  IN IF ~Truthy(roomId)
        \/ (~Truthy(Get(restPayload, "sdp"))
            /\ ~Truthy(Get(restPayload, "candidate")))
       THEN Outcome(rms, rk, cl, <<>>, <<>>, "ok")
       ELSE Outcome(rms, rk, cl,
                    broadcast(rms, cl, wc, rs, clientInfo.id, roomId,
                              signalingEvent, restPayload, toSocketId),
                    <<>>, "ok")

HandleLeave(rms, rk, cl, wc, rs, ws) ==
  LET left == cleanupClient(rms, rk, cl, wc, rs, cl[ws].id, cl[ws].roomId)
  IN IF left.threw THEN Outcome(rms, rk, cl, <<>>, <<>>, "caught")
     ELSE Outcome(left.rooms, left.roomKeys, cl, left.out, left.steps, "ok")

SignalingEvent(eventType) == IF eventType = "ice" THEN "ice-candidate" ELSE eventType

\* the inbound decoding of a text that parses and has a type:
\* const { type: eventType, ...payload } = msg, and the `ice` alias
Decode(text) ==
  LET msg == parse(text)
  IN [type |-> SignalingEvent(msg.type), payload |-> Rest(msg, {"type"})]

HandleMessage(secretCfg, rms, rk, cl, wc, rs, ws, raw) ==
  IF raw = Unparsable THEN Outcome(rms, rk, cl, <<>>, <<>>, "caught")
  ELSE IF ~Truthy(Get(raw, "type")) THEN Outcome(rms, rk, cl, <<>>, <<>>, "ok")
  ELSE LET payload == Rest(raw, {"type"})
           signalingEvent == SignalingEvent(raw.type)
       IN CASE signalingEvent = "join" ->
                 HandleJoin(secretCfg, rms, rk, cl, wc, rs, ws, payload)
            [] signalingEvent \in {"offer", "answer", "ice-candidate"} ->
                 HandleRelay(rms, rk, cl, wc, rs, ws, signalingEvent, payload)
            [] signalingEvent = "leave" ->
                 HandleLeave(rms, rk, cl, wc, rs, ws)
            [] OTHER -> Outcome(rms, rk, cl, <<>>, <<>>, "ok")

(* -------------------------- ws.on("close") ----------------------------- *)
\* a close handler that deregisters the connection without leaving its room
HandleClose_NoCleanup(rms, rk, cl, wc, rs, ws) ==
  [rooms |-> rms, roomKeys |-> rk, clients |-> RemoveKey(cl, ws),
   out |-> <<>>, steps |-> <<>>, err |-> "ok"]

\* wc and rs are wss.clients and the ready states once the library has
\* closed the socket.  An exception from cleanupClient leaves the handler
\* before clients.delete(ws) runs.
HandleClose(rms, rk, cl, wc, rs, ws) ==
  IF ws \notin DOMAIN cl THEN Outcome(rms, rk, cl, <<>>, <<>>, "ok")
  ELSE LET left == cleanupClient(rms, rk, cl, wc, rs, cl[ws].id, cl[ws].roomId)
       IN IF left.threw THEN Outcome(rms, rk, cl, <<>>, <<>>, "uncaught")
          ELSE Outcome(left.rooms, left.roomKeys, RemoveKey(cl, ws),
                       left.out, left.steps, "ok")

(* ------------------------------ actions -------------------------------- *)
BridgeEvent(op, k, m) == [op |-> op, sock |-> k, msg |-> m]

\* the bridge before any browser has connected
BridgeIdle ==
  /\ variant = "config"
  /\ wsState = "OPEN"
  /\ unitySocket = 0
  /\ sockets = <<>>
  /\ unityMessageBuffers = <<>>
  /\ wsSent = <<>>
  /\ written = <<>>
  /\ dataEvents = 0
  /\ bridgeLast = BridgeEvent("start", 0, <<>>)

FramerIdle ==
  /\ framerFed = <<>>
  /\ framerBuffer = <<>>
  /\ framerOut = <<>>

SioEvent(event, s, data) == [event |-> event, sock |-> s, data |-> data]

\* the socket.io variant before any socket has connected
SioIdle ==
  /\ sioSecret = Null
  /\ sioState = [s \in Conns |-> "NONE"]
  /\ sioAdapter = <<>>
  /\ sioRooms = <<>>
  /\ sioRoomKeys = <<>>
  /\ sioOut = <<>>
  /\ sioLast = SioEvent("start", Null, <<>>)

Event(op, c, msg, res) ==
  [op |-> op, conn |-> c, msg |-> msg, err |-> res.err, steps |-> res.steps]

Init ==
  /\ SIGNALING_SECRET \in {Null, ConfiguredSecret}
  /\ readyState = [c \in Conns |-> "NONE"]
  /\ wssClients = <<>>
  /\ clients = <<>>
  /\ rooms = <<>>
  /\ roomKeys = <<>>
  /\ out = <<>>
  /\ last = [op |-> "start", conn |-> Null, msg |-> <<>>, err |-> "ok",
             steps |-> <<>>]
  /\ crashed = FALSE
  /\ BridgeIdle
  /\ FramerIdle
  /\ SioIdle

\* Connections are accepted in the order c1, c2, ...: the ids are fresh and
\* interchangeable, so this is every accept order up to renaming.
NextConn ==
  "c" \o ToString(1 + Cardinality({c \in Conns : readyState[c] # "NONE"}))

\* wss.on("connection")
Connection(c) ==
  /\ ~crashed
  /\ readyState[c] = "NONE"
  /\ c = NextConn
  /\ readyState' = [readyState EXCEPT ![c] = "OPEN"]
  /\ wssClients' = Append(wssClients, c)
  /\ clients' = (c :> [id |-> NewSocketId(c), roomId |-> Null]) @@ clients
  /\ out' = <<>>
  /\ last' = [op |-> "connection", conn |-> c, msg |-> <<>>, err |-> "ok",
              steps |-> <<>>]
  /\ UNCHANGED <<SIGNALING_SECRET, rooms, roomKeys, crashed, bridgeVars, framerVars, sioVars>>

\* ws.on("message")
Message(c, raw) ==
  /\ ~crashed
  /\ readyState[c] = "OPEN"
  /\ LET res == HandleMessage(SIGNALING_SECRET, rooms, roomKeys, clients,
                              wssClients, readyState, c, raw)
     IN /\ rooms' = res.rooms
        /\ roomKeys' = res.roomKeys
        /\ clients' = res.clients
        /\ out' = res.out
        /\ last' = Event("message", c, raw, res)
  /\ UNCHANGED <<SIGNALING_SECRET, readyState, wssClients, crashed, bridgeVars,
                 framerVars, sioVars>>

\* the peer or the transport starts closing: the socket is no longer OPEN,
\* its close event has not been emitted yet
BeginClose(c) ==
  /\ ~crashed
  /\ readyState[c] = "OPEN"
  /\ readyState' = [readyState EXCEPT ![c] = "CLOSING"]
  /\ out' = <<>>
  /\ last' = [op |-> "closing", conn |-> c, msg |-> <<>>, err |-> "ok",
              steps |-> <<>>]
  /\ UNCHANGED <<SIGNALING_SECRET, wssClients, clients, rooms, roomKeys, crashed,
                 bridgeVars, framerVars, sioVars>>

\* ws.on("close")
Close(c) ==
  /\ ~crashed
  /\ readyState[c] \in {"OPEN", "CLOSING"}
  /\ LET rs == [readyState EXCEPT ![c] = "CLOSED"]
         wc == RemoveElem(wssClients, c)
         res == HandleClose(rooms, roomKeys, clients, wc, rs, c)
     IN /\ readyState' = rs
        /\ wssClients' = wc
        /\ rooms' = res.rooms
        /\ roomKeys' = res.roomKeys
        /\ clients' = res.clients
        /\ out' = res.out
        /\ last' = Event("close", c, <<>>, res)
        /\ crashed' = (res.err = "uncaught")
  /\ UNCHANGED <<SIGNALING_SECRET, bridgeVars, framerVars, sioVars>>

Next ==
  \/ \E c \in Conns : Connection(c)
  \/ \E c \in Conns, raw \in Msgs \cup {Unparsable} : Message(c, raw)
  \/ \E c \in Conns : BeginClose(c)
  \/ \E c \in Conns : Close(c)

Spec == Init /\ [][Next]_vars

(* --------------------------- type invariant ---------------------------- *)
TypeOK ==
  /\ DOMAIN rooms = {roomKeys[i] : i \in 1..Len(roomKeys)}
  /\ DOMAIN clients \subseteq Conns
  /\ \A c \in DOMAIN clients : clients[c].id = c

(* ===================== properties of the relay ========================= *)
RelayEvents == {"offer", "answer", "ice-candidate"}

Members(r) == IF r \in DOMAIN rooms THEN rooms[r] ELSE {}
RoomsOf(id) == {r \in DOMAIN rooms : id \in rooms[r]}
Sent == {out[i] : i \in 1..Len(out)}
Recipients(types) == {e.to : e \in {x \in Sent : x.type \in types}}
IsOpen(c) == readyState[c] = "OPEN"

LastIsMessage(types) ==
  /\ last.op = "message"
  /\ last.msg # Unparsable
  /\ SignalingEvent(Get(last.msg, "type")) \in types

\* the last event was an offer/answer/ice-candidate that reached broadcast:
\* the sender has a recorded session and the message carries sdp or candidate
LastIsRelay ==
  /\ LastIsMessage(RelayEvents)
  /\ Truthy(clients[last.conn].roomId)
  /\ Truthy(Get(last.msg, "sdp")) \/ Truthy(Get(last.msg, "candidate"))

LastTarget == Get(last.msg, "toSocketId")
SenderRoom == clients[last.conn].roomId

\* C1: every offer/answer/ice-candidate envelope delivered carries a `from`
\* equal to the id the server assigned to the sender, also when the inbound
\* message has a `from` field of its own.
C1_FromIsSender ==
  LastIsRelay =>
    \A e \in Sent : e.type \in RelayEvents =>
      e.payload.from = clients[last.conn].id

\* C2: a relayed message with toSocketId = X (X an open connection) is
\* delivered to X exactly when X is in the member set of the sender's
\* session, and to no connection otherwise.
C2_UnicastPrecision ==
  (LastIsRelay /\ Truthy(LastTarget) /\ IsOpen(LastTarget)) =>
    Recipients(RelayEvents) =
      IF LastTarget \in Members(SenderRoom) THEN {LastTarget} ELSE {}

\* C3: a relayed message without toSocketId sent by S is delivered to exactly
\* the open connections in the member set of S's session, except S.
C3_BroadcastExact ==
  (LastIsRelay /\ ~Truthy(LastTarget)) =>
    Recipients(RelayEvents) =
      {c \in Members(SenderRoom) : IsOpen(c) /\ c # clients[last.conn].id}

\* C4: handling a transport close never ends in an uncaught exception and
\* always removes the connection from the clients registry.
C4_CloseIsSafe ==
  last.op = "close" =>
    /\ last.err # "uncaught"
    /\ ~crashed
    /\ last.conn \notin DOMAIN clients

\* C5: a join with a non-empty roomId (and a matching secret when one is
\* configured) always registers membership: afterwards the sender is in the
\* member set of roomId, its recorded session is roomId and it has been sent
\* a `joined` envelope.
AcceptableJoin(msg) ==
  /\ Truthy(Get(msg, "roomId"))
  /\ Truthy(SIGNALING_SECRET) => Get(msg, "secret") = SIGNALING_SECRET

C5_JoinRegisters ==
  (LastIsMessage({"join"}) /\ AcceptableJoin(last.msg)) =>
    /\ clients[last.conn].id \in Members(last.msg.roomId)
    /\ clients[last.conn].roomId = last.msg.roomId
    /\ \E e \in Sent : e.to = last.conn /\ e.type = "joined"

\* C6: every session id present in the rooms registry maps to a non-empty
\* member set, and an entry appears only through a join for that session
\* that puts its sender in the member set.
C6_NoEmptySession ==
  /\ [](\A r \in DOMAIN rooms : rooms[r] # {})
  /\ [][\A r \in DOMAIN rooms' \ DOMAIN rooms :
          /\ LastIsMessage({"join"})'
          /\ last'.msg.roomId = r
          /\ clients'[last'.conn].id \in rooms'[r]]_vars

\* a session was emptied and deleted while another session remains
C6_Witness ==
  /\ \E i \in DOMAIN last.steps :
       last.steps[i].step = "delete" /\ last.steps[i].removed
  /\ DOMAIN rooms # {}

\* C7: every connection id is in the member set of at most one session.
C7_AtMostOneSession ==
  \A c \in Conns : Cardinality(RoomsOf(NewSocketId(c))) <= 1

\* a member of one session has joined another one
C7_Witness ==
  /\ LastIsMessage({"join"})
  /\ last.err = "ok"
  /\ Len(last.steps) > 0
  /\ last.steps[1].removed
  /\ last.steps[1].room # last.msg.roomId
  /\ RoomsOf(clients[last.conn].id) = {last.msg.roomId}

LastLeft(c) ==
  /\ last.conn = c
  /\ last.op = "close" \/ LastIsMessage({"leave"})

\* C8: after a leave message or a transport close of a connection has been
\* handled, its id is in no session's member set, and a session of which it
\* was the last member is absent from the rooms registry.
C8_LeaveCleanup ==
  [][\A c \in Conns :
       LastLeft(c)' =>
         /\ RoomsOf(NewSocketId(c))' = {}
         /\ \A r \in DOMAIN rooms :
              rooms[r] = {NewSocketId(c)} => r \notin DOMAIN rooms']_vars

\* the last member of a session disconnected and its session entry is gone
C8_Witness ==
  /\ last.op = "close"
  /\ Len(last.steps) = 2
  /\ last.steps[1].removed
  /\ last.steps[2].step = "delete"
  /\ last.steps[2].room \notin DOMAIN rooms

\* C9: a leave message from a connection that is in no session's member set
\* is a no-op: both registries are unchanged, no envelope is delivered and
\* no error is raised.
C9_LeaveOfNonMemberIsNoOp ==
  [][\A c \in Conns :
       (last'.conn = c /\ LastIsMessage({"leave"})'
          /\ RoomsOf(NewSocketId(c)) = {}) =>
         /\ rooms' = rooms
         /\ clients' = clients
         /\ out' = <<>>
         /\ last'.err = "ok"]_vars

StepNames == [i \in DOMAIN last.steps |-> last.steps[i].step]

\* C10: whenever a connection stops being a member of a session that still
\* has other members, every remaining open member is sent a peer-left
\* envelope carrying the departing id, and within a handler the notification
\* step never comes after the deletion of the session entry.
C10_PeerLeftNotified ==
  [][/\ \A r \in DOMAIN rooms \cap DOMAIN rooms' :
          \A c \in rooms[r] \ rooms'[r] :
            \A m \in rooms'[r] :
              IsOpen(m)' =>
                \E i \in DOMAIN out' :
                  /\ out'[i].to = m
                  /\ out'[i].type = "peer-left"
                  /\ out'[i].payload.socketId = c
     /\ \A i, j \in DOMAIN StepNames' :
          (StepNames'[i] = "delete" /\ StepNames'[j] = "peer-left"
             /\ last'.steps[i].room = last'.steps[j].room) => j < i]_vars

\* a member disconnected and the open member that remains was notified
C10_Witness ==
  /\ last.op = "close"
  /\ Len(last.steps) = 2
  /\ last.steps[1].removed
  /\ last.steps[2].step = "peer-left"
  /\ \E e \in Sent :
       /\ e.type = "peer-left"
       /\ e.payload.socketId = last.conn
       /\ e.to \in Members(last.steps[1].room)
       /\ IsOpen(e.to)

(* --------------------------- join envelopes ---------------------------- *)
\* the last event was a join that passed the roomId and secret tests and
\* ran to the end of its case
JoinSucceeded ==
  /\ LastIsMessage({"join"})
  /\ AcceptableJoin(last.msg)
  /\ last.err = "ok"

JoinedOf(c) == {e \in Sent : e.to = c /\ e.type = "joined"}

\* C11: for every successful join, the participants of the `joined` envelope
\* sent to the joiner are the members the session had before the join,
\* without the joiner, and never contain the joiner's own id.
C11_JoinSnapshot ==
  [][JoinSucceeded' =>
       /\ JoinedOf(last.conn)' # {}
       /\ \A e \in JoinedOf(last.conn)' :
            /\ e.payload.participants =
                 Members(last'.msg.roomId) \ {clients'[last'.conn].id}
            /\ clients'[last'.conn].id \notin e.payload.participants]_vars

\* a connection joined a session that it was already in and that has
\* another member
C11_Witness ==
  /\ JoinSucceeded
  /\ Len(last.steps) > 0
  /\ last.steps[1].removed
  /\ last.steps[1].room = last.msg.roomId
  /\ \E e \in JoinedOf(last.conn) : e.payload.participants # {}

\* C12: when a connection C successfully joins a session, every open
\* connection that was already a member is sent exactly one peer-joined
\* envelope with socketId = C, C is sent exactly one joined envelope and no
\* peer-joined, and the first joiner of a session gets an empty participants
\* list.
C12_JoinNotifications ==
  [][JoinSucceeded' =>
       LET C == clients'[last'.conn].id
           R == last'.msg.roomId
       IN /\ \A m \in Members(R) \ {C} :
               IsOpen(m)' =>
                 Cardinality({i \in DOMAIN out' :
                    /\ out'[i].to = m
                    /\ out'[i].type = "peer-joined"
                    /\ out'[i].payload.socketId = C}) = 1
          /\ Cardinality({i \in DOMAIN out' :
                out'[i].to = last'.conn /\ out'[i].type = "joined"}) = 1
          /\ \A i \in DOMAIN out' :
               out'[i].to = last'.conn => out'[i].type # "peer-joined"
          /\ R \notin DOMAIN rooms =>
               \A i \in DOMAIN out' :
                 out'[i].type = "joined" => out'[i].payload.participants = {}]_vars

\* a second connection joined a session: the member got peer-joined and the
\* joiner got joined with the member in the list
C12_Witness ==
  /\ JoinSucceeded
  /\ \E i, j \in DOMAIN out :
       /\ out[i].type = "peer-joined"
       /\ out[i].to # last.conn
       /\ out[i].to \in Members(last.msg.roomId)
       /\ out[j].type = "joined"
       /\ out[j].to = last.conn
       /\ out[j].payload.participants = {out[i].to}

(* ------------------------- broadcast exclusion ------------------------- *)
\* the envelopes of the last handler that went through an undirected
\* broadcast: peer-joined, peer-left, and a relayed message without target
UndirectedSent ==
  {e \in Sent :
     \/ e.type \in {"peer-joined", "peer-left"}
     \/ e.type \in RelayEvents /\ ~Truthy(LastTarget)}

\* C13: a peer-joined, a peer-left or an undirected offer/answer/
\* ice-candidate envelope is never delivered to the connection whose join,
\* departure or message caused it.
C13_NeverToSelf ==
  \A e \in UndirectedSent : e.to # last.conn

\* an undirected offer of a session member was delivered to the other member
C13_Witness ==
  /\ LastIsRelay
  /\ ~Truthy(LastTarget)
  /\ clients[last.conn].id \in Members(SenderRoom)
  /\ \E e \in UndirectedSent : e.to \in Members(SenderRoom)

(* --------------------------- rejected input ---------------------------- *)
BadSecretJoin ==
  /\ LastIsMessage({"join"})
  /\ Truthy(SIGNALING_SECRET)
  /\ Get(last.msg, "secret") # SIGNALING_SECRET

OnlyErrorToSender ==
  /\ Len(out) = 1
  /\ out[1].to = last.conn
  /\ out[1].type = "error"

\* C14: with a secret configured, a join whose secret is missing or
\* different sends the sender exactly one error envelope and changes nothing
\* else: the rooms registry and every recorded session stay as they were and
\* no other connection is sent anything.
C14_BadSecretRejected ==
  [][BadSecretJoin' =>
       /\ rooms' = rooms
       /\ clients' = clients
       /\ OnlyErrorToSender']_vars

\* a member of a session sent a join with a wrong or missing secret while
\* another connection is open
C14_Witness ==
  /\ BadSecretJoin
  /\ clients[last.conn].id \in Members(clients[last.conn].roomId)
  /\ OnlyErrorToSender
  /\ \E c \in Conns : c # last.conn /\ IsOpen(c)

KnownEvents == {"join", "leave"} \cup RelayEvents

JoinWithoutRoom ==
  LastIsMessage({"join"}) /\ ~Truthy(Get(last.msg, "roomId"))

\* the last message was not valid JSON, had no type or an unknown type, or
\* was a join without roomId
IgnoredInput ==
  /\ last.op = "message"
  /\ \/ last.msg = Unparsable
     \/ ~Truthy(Get(last.msg, "type"))
     \/ SignalingEvent(Get(last.msg, "type")) \notin KnownEvents
     \/ JoinWithoutRoom

C16_RejoinKeepsRegistries ==
  [][(/\ LastIsMessage({"join"})'
      /\ clients[last'.conn].id \in Members(Get(last'.msg, "roomId"))) =>
       /\ rooms' = rooms
       /\ clients' = clients]_vars

\* the only member of a session joined it again: the entry was deleted and
\* created again by the same handler
C16_Witness ==
  /\ JoinSucceeded
  /\ Len(last.steps) = 2
  /\ last.steps[1].removed
  /\ last.steps[2].step = "delete"
  /\ last.steps[2].room = last.msg.roomId
  /\ Members(last.msg.roomId) = {clients[last.conn].id}

(***************************************************************************)
(* Model of the WebSocket-to-TCP bridge: src/server.cjs (the backend is    *)
(* named by the browser's `config` message) and the earlier variant in     *)
(* src/unnamed/part_000 lines 123-233 (the backend address is fixed and    *)
(* the socket is opened when the browser connects).  One browser           *)
(* connection is modelled; backend sockets are numbered in creation order. *)
(*                                                                         *)
(* Bytes of the backend stream are "1", "x", " ", "\n" and the two bytes   *)
(* C2 A0 that encode U+00A0 (no-break space) in UTF-8; decoded text is a   *)
(* sequence of characters.                                                 *)
(***************************************************************************)

(* ------------------------------ bounds --------------------------------- *)
MaxBackends == 2
MaxWrites == 2
MaxChunks == 2
MaxStream == 3

(* ------------------------------ inputs --------------------------------- *)
Bytes == {"1", "x", " ", "\n", "C2", "A0"}

RECURSIVE SeqsUpTo(_, _)
SeqsUpTo(S, n) ==
  IF n = 0 THEN {<<>>}
  ELSE LET shorter == SeqsUpTo(S, n - 1)
       IN shorter \cup {Append(s, x) : s \in shorter, x \in S}

Chunks(n) == SeqsUpTo(Bytes, n) \ {<<>>}

\* what the backend sends in the runs of the whole bridge: a complete line
\* and a fragment without newline
BackendChunks == {<<"1", "\n">>, <<" ">>}

\* what JSON.parse returns for the text null
ParsedNull == [null |-> TRUE]

\* browser messages: the text and what JSON.parse makes of it
ConfigMsg == [text |-> "{config}", parsed |-> [type |-> "config", unityHost |-> "h", unityPort |-> 1]]
BrowserMsgs ==
  {ConfigMsg,
   [text |-> "{move}", parsed |-> [type |-> "move"]],
   [text |-> "hello", parsed |-> Unparsable],
   [text |-> "null", parsed |-> ParsedNull]}

(* --------------------------- text conversions -------------------------- *)
\* Buffer.prototype.toString(): UTF-8 decoding of one chunk on its own.  A
\* lead byte without its continuation byte, and a continuation byte without
\* its lead byte, each decode to U+FFFD.
RECURSIVE toString(_)
toString(data) ==
  IF data = <<>> THEN <<>>
  ELSE IF data[1] = "C2"
       THEN IF Len(data) >= 2 /\ data[2] = "A0"
            THEN <<"U+00A0">> \o toString(SubSeq(data, 3, Len(data)))
            ELSE <<"U+FFFD">> \o toString(Tail(data))
       ELSE IF data[1] = "A0" THEN <<"U+FFFD">> \o toString(Tail(data))
       ELSE <<data[1]>> \o toString(Tail(data))

\* String.prototype.indexOf, 1-based; 0 when the character does not occur
indexOf(s, ch) ==
  IF \E i \in 1..Len(s) : s[i] = ch
  THEN CHOOSE i \in 1..Len(s) : s[i] = ch /\ \A j \in 1..(i - 1) : s[j] # ch
  ELSE 0

\* the characters String.prototype.trim removes
WhiteSpace == {" ", "U+00A0"}

RECURSIVE trimStart(_)
trimStart(s) ==
  IF s # <<>> /\ s[1] \in WhiteSpace THEN trimStart(Tail(s)) ELSE s

RECURSIVE trimEnd(_)
trimEnd(s) ==
  IF s # <<>> /\ s[Len(s)] \in WhiteSpace
  THEN trimEnd(SubSeq(s, 1, Len(s) - 1)) ELSE s

trim(s) == trimEnd(trimStart(s))

\* JSON.parse accepts, of the texts over these characters, the numbers:
\* one run of digits with optional spaces around it (U+00A0 is not
\* whitespace in JSON)
ParsesAsJson(s) ==
  /\ \E i \in 1..Len(s) : s[i] = "1"
  /\ \A i \in 1..Len(s) : s[i] \in {"1", " "}
  /\ \A i, j, k \in 1..Len(s) :
       (i < j /\ j < k /\ s[i] = "1" /\ s[k] = "1") => s[j] = "1"

\* JSON.stringify(JSON.parse(s)) for a text that parses
Restringified(s) == SelectSeq(s, LAMBDA c : c = "1")

(* ------------------------------ framer --------------------------------- *)
\* completeMessage.trim().length > 0
IsForwarded(completeMessage) == Len(trim(completeMessage)) > 0

\* what ws.send is given for one complete message
ForwardedText(completeMessage) ==
  IF ParsesAsJson(completeMessage) THEN Restringified(completeMessage)
  ELSE completeMessage

\* the while loop of the data handler: the complete messages of buffer in
\* order, and what is left after the last newline
RECURSIVE Frame(_)
Frame(buffer) ==
  LET newlineIndex == indexOf(buffer, "\n")
  IN IF newlineIndex = 0 THEN [buffer |-> buffer, msgs |-> <<>>]
     ELSE LET completeMessage == SubSeq(buffer, 1, newlineIndex - 1)
              rest == Frame(SubSeq(buffer, newlineIndex + 1, Len(buffer)))
          IN [buffer |-> rest.buffer,
              msgs |-> (IF IsForwarded(completeMessage)
                        THEN <<ForwardedText(completeMessage)>> ELSE <<>>)
                       \o rest.msgs]

\* the whole data handler but its sends: the stored buffer and one chunk
\* give the messages to send and the buffer to store
dataHandler(buffer, data) == Frame(buffer \o toString(data))

(* --------------------------- bridge helpers ---------------------------- *)
StatusEnvelope(text) == [kind |-> "status", data |-> text]
DataMessage(text) == [kind |-> "data", data |-> text]

wsSend_Unguarded(state, m) == <<m>>

\* ws.send: the handlers call it whatever the state of the socket; the
\* socket transmits the message only when it is OPEN and discards it
\* otherwise
wsSend(state, m) == IF state = "OPEN" THEN <<m>> ELSE <<>>

wsSendAll(state, texts) ==
  IF state = "OPEN" THEN [i \in 1..Len(texts) |-> DataMessage(texts[i])]
  ELSE <<>>

\* ws.close(): starts the closing handshake of an OPEN socket
wsClose(state) == IF state = "OPEN" THEN "CLOSING" ELSE state

\* new net.Socket() followed by connect(...)
NewSocket == [state |-> "connecting", ended |-> FALSE]

\* unitySocket.write(msgString + "\n"); a socket that was ended or destroyed
\* takes no more data
write(log, socks, k, text) ==
  IF socks[k].ended \/ socks[k].state \in {"failed", "closed"} THEN log
  ELSE Append(log, [sock |-> k, data |-> <<text, "\n">>])

(* ---------------------------- bridge actions --------------------------- *)
RelayIdle ==
  /\ SIGNALING_SECRET = Null
  /\ readyState = [c \in Conns |-> "NONE"]
  /\ wssClients = <<>>
  /\ clients = <<>>
  /\ rooms = <<>>
  /\ roomKeys = <<>>
  /\ out = <<>>
  /\ last = [op |-> "start", conn |-> Null, msg |-> <<>>, err |-> "ok",
             steps |-> <<>>]
  /\ crashed = FALSE

\* wss.on('connection') has run for one browser: server.cjs starts with no
\* backend socket, the fixed-address variant has opened one
BridgeInit ==
  /\ RelayIdle
  /\ FramerIdle
  /\ SioIdle
  /\ variant \in {"config", "fixed"}
  /\ wsState = "OPEN"
  /\ unitySocket = IF variant = "fixed" THEN 1 ELSE 0
  /\ sockets = IF variant = "fixed" THEN <<NewSocket>> ELSE <<>>
  /\ unityMessageBuffers = <<>>
  /\ wsSent = <<>>
  /\ written = <<>>
  /\ dataEvents = 0
  /\ bridgeLast = BridgeEvent("start", 0, <<>>)

\* parsed.type of the value null raises a TypeError, which nothing in the
\* message handler catches
Throws(m) == m.parsed = ParsedNull

IsConfig(m) ==
  m.parsed \notin {Unparsable, ParsedNull} /\ Get(m.parsed, "type") = "config"

\* ws.on("message"): in server.cjs a config message opens a socket and every
\* other message is written to the current one; the fixed-address variant
\* writes every message
WsMessage(m) ==
  /\ ~crashed
  /\ wsState = "OPEN"
  /\ IF variant = "config" /\ Throws(m)
     THEN /\ crashed' = TRUE
          /\ wsSent' = <<>>
          /\ UNCHANGED <<sockets, unitySocket, written>>
     ELSE IF variant = "config" /\ IsConfig(m)
     THEN /\ Len(sockets) < MaxBackends
          /\ wsSent' = wsSend(wsState, StatusEnvelope("Connecting..."))
          /\ sockets' = Append(sockets, NewSocket)
          /\ unitySocket' = Len(sockets) + 1
          /\ UNCHANGED <<written, crashed>>
     ELSE /\ Len(written) < MaxWrites
          /\ written' = IF unitySocket # 0
                        THEN write(written, sockets, unitySocket, m.text)
                        ELSE written
          /\ wsSent' = <<>>
          /\ UNCHANGED <<sockets, unitySocket, crashed>>
  /\ bridgeLast' = BridgeEvent("message", unitySocket, m)
  /\ UNCHANGED <<variant, wsState, unityMessageBuffers, dataEvents>>
  /\ UNCHANGED <<relayState, framerVars, sioVars>>

\* the callback of unitySocket.connect
UnityConnect(k) ==
  /\ ~crashed
  /\ k \in 1..Len(sockets)
  /\ sockets[k].state = "connecting"
  /\ sockets' = [sockets EXCEPT ![k].state = "open"]
  /\ wsSent' = wsSend(wsState, StatusEnvelope("Connected to Unity"))
  /\ bridgeLast' = BridgeEvent("connect", k, <<>>)
  /\ UNCHANGED <<variant, wsState, unitySocket, unityMessageBuffers, written,
                 dataEvents>>
  /\ UNCHANGED <<relayVars, framerVars, sioVars>>

\* unitySocket.on("data"): the handler reads the closure variable
\* unitySocket, which is the socket of the latest config message
UnityData(k, data) ==
  /\ ~crashed
  /\ k \in 1..Len(sockets)
  /\ sockets[k].state = "open"
  /\ dataEvents < MaxChunks
  /\ dataEvents' = dataEvents + 1
  /\ LET stored == IF unitySocket \in DOMAIN unityMessageBuffers
                   THEN unityMessageBuffers[unitySocket] ELSE <<>>
         framed == dataHandler(stored, data)
     IN /\ wsSent' = wsSendAll(wsState, framed.msgs)
        /\ unityMessageBuffers' =
             (unitySocket :> framed.buffer) @@ unityMessageBuffers
  /\ bridgeLast' = BridgeEvent("data", k, <<>>)
  /\ UNCHANGED <<variant, wsState, unitySocket, sockets, written>>
  /\ UNCHANGED <<relayVars, framerVars, sioVars>>

\* unitySocket.on("error"): a failed connect or a stream error; the socket
\* is destroyed and its close event follows.  The handler of server.cjs
\* sends a status envelope, the one of the fixed-address variant closes the
\* browser connection instead.
UnityError(k) ==
  /\ ~crashed
  /\ k \in 1..Len(sockets)
  /\ sockets[k].state \in {"connecting", "open"}
  /\ sockets' = [sockets EXCEPT ![k].state = "failed"]
  /\ IF variant = "config"
     THEN /\ wsSent' = wsSend(wsState, StatusEnvelope("Unity connection failed"))
          /\ UNCHANGED wsState
     ELSE /\ wsState' = wsClose(wsState)
          /\ wsSent' = <<>>
  /\ bridgeLast' = BridgeEvent("error", k, <<>>)
  /\ UNCHANGED <<variant, unitySocket, unityMessageBuffers, written, dataEvents>>
  /\ UNCHANGED <<relayVars, framerVars, sioVars>>

\* unitySocket.on("close"): the backend closed the stream, or the socket
\* was destroyed after an error
UnityClose(k) ==
  /\ ~crashed
  /\ k \in 1..Len(sockets)
  /\ sockets[k].state \in {"open", "failed"}
  /\ sockets' = [sockets EXCEPT ![k].state = "closed"]
  /\ wsState' = wsClose(wsState)
  /\ wsSent' = <<>>
  /\ bridgeLast' = BridgeEvent("close", k, <<>>)
  /\ UNCHANGED <<variant, unitySocket, unityMessageBuffers, written, dataEvents>>
  /\ UNCHANGED <<relayVars, framerVars, sioVars>>

\* ws.on("close"): only server.cjs deletes the buffer entry
WsClose ==
  /\ ~crashed
  /\ wsState \in {"OPEN", "CLOSING"}
  /\ wsState' = "CLOSED"
  /\ sockets' = IF unitySocket # 0
                THEN [sockets EXCEPT ![unitySocket].ended = TRUE]
                ELSE sockets
  /\ unityMessageBuffers' =
       IF variant = "config" THEN RemoveKey(unityMessageBuffers, unitySocket)
       ELSE unityMessageBuffers
  /\ wsSent' = <<>>
  /\ bridgeLast' = BridgeEvent("ws-close", unitySocket, <<>>)
  /\ UNCHANGED <<variant, unitySocket, written, dataEvents>>
  /\ UNCHANGED <<relayVars, framerVars, sioVars>>

BridgeNext ==
  \/ \E m \in BrowserMsgs : WsMessage(m)
  \/ \E k \in 1..MaxBackends : UnityConnect(k)
  \/ \E k \in 1..MaxBackends, data \in BackendChunks : UnityData(k, data)
  \/ \E k \in 1..MaxBackends : UnityError(k)
  \/ \E k \in 1..MaxBackends : UnityClose(k)
  \/ WsClose

BridgeSpec == BridgeInit /\ [][BridgeNext]_vars

(* ------------------------------ framer run ----------------------------- *)
\* The data handler of one backend socket is fed every stream of at most
\* MaxStream bytes in every chunking; framerOut collects what it sends.
FramerInit ==
  /\ RelayIdle
  /\ BridgeIdle
  /\ FramerIdle
  /\ SioIdle

Feed(data) ==
  /\ Len(framerFed) + Len(data) <= MaxStream
  /\ LET framed == dataHandler(framerBuffer, data)
     IN /\ framerBuffer' = framed.buffer
        /\ framerOut' = framerOut \o framed.msgs
  /\ framerFed' = framerFed \o data
  /\ UNCHANGED <<relayVars, bridgeVars, sioVars>>

FramerNext == \E data \in Chunks(MaxStream) : Feed(data)

FramerSpec == FramerInit /\ [][FramerNext]_vars

(* --------------------------- socket.io variant -------------------------- *)
\* The second module of server.js (lines 289-424): the same relay on
\* socket.io.  The library keeps its own rooms (the adapter): every socket
\* is in the room named by its own id, socket.join / socket.leave add and
\* remove it, and a disconnecting socket has left all of them before its
\* disconnect handler runs.  The module keeps a second registry, rooms.

\* a handler called with no argument
NoData == [undefined |-> TRUE]
EmptyObject == [k \in {} |-> Undefined]

\* data || {}
OrEmpty(data) == IF data = NoData THEN EmptyObject ELSE data

SioJoinData ==
  {[roomId |-> r, secret |-> ConfiguredSecret] : r \in RoomNames}
  \cup {[roomId |-> "r1", secret |-> "wrong"],
        [roomId |-> "r1"],
        [secret |-> ConfiguredSecret],
        NoData}

\* the field that carries the body of each relayed event
BodyField(event) == IF event = "ice-candidate" THEN "candidate" ELSE "sdp"

\* directed at every socket id and undirected, one without roomId, one
\* without body, one with no argument
SioRelayData(event) ==
  {WithOpt([k \in {"roomId", BodyField(event)} |->
              IF k = "roomId" THEN "r1" ELSE "X"], "toSocketId", x) :
     x \in Conns \cup {Undefined}}
  \cup {[k \in {BodyField(event)} |-> "X"],
        [roomId |-> "r1"],
        NoData}

SioLeaveData == {[roomId |-> r] : r \in RoomNames} \cup {EmptyObject, NoData}

\* one emit: the sockets it reaches, the event and its argument
Emit(to, event, payload) == [to |-> to, event |-> event, payload |-> payload]

\* io.to(room): every socket in the adapter's room of that name
ioTo(adapter, room) == IF room \in DOMAIN adapter THEN adapter[room] ELSE {}

\* socket.to(room): the same without the socket itself
socketTo(adapter, s, room) == ioTo(adapter, room) \ {s}

\* socket.join(room)
socketJoin(adapter, s, room) ==
  [n \in DOMAIN adapter \cup {room} |-> ioTo(adapter, n) \cup
                                          (IF n = room THEN {s} ELSE {})]

\* socket.leave(room): a room with no socket left is dropped
socketLeave(adapter, s, room) ==
  [n \in {m \in DOMAIN adapter : m # room \/ adapter[m] \ {s} # {}} |->
     IF n = room THEN adapter[n] \ {s} ELSE adapter[n]]

\* the socket leaves every room of the adapter
leaveAll(adapter, s) ==
  [n \in {m \in DOMAIN adapter : adapter[m] \ {s} # {}} |-> adapter[n] \ {s}]

\* server.js:344, on the Map and on its key order
joinRoom(rms, roomId, socketId) ==
  [r \in DOMAIN rms \cup {roomId} |->
     (IF r \in DOMAIN rms THEN rms[r] ELSE {}) \cup
     (IF r = roomId THEN {socketId} ELSE {})]

joinRoomKeys(rk, rms, roomId) ==
  IF roomId \in DOMAIN rms THEN rk ELSE Append(rk, roomId)

\* server.js:348
leaveRoom(rms, roomId, socketId) ==
  IF roomId \notin DOMAIN rms THEN rms
  ELSE [r \in {q \in DOMAIN rms : q # roomId \/ rms[q] \ {socketId} # {}} |->
          IF r = roomId THEN rms[r] \ {socketId} ELSE rms[r]]

leaveRoomKeys(rk, rms, roomId, socketId) ==
  SelectSeq(rk, LAMBDA r : r \in DOMAIN leaveRoom(rms, roomId, socketId))

SioInit ==
  /\ RelayIdle
  /\ BridgeIdle
  /\ FramerIdle
  /\ sioSecret \in {Null, ConfiguredSecret}
  /\ sioState = [s \in Conns |-> "NONE"]
  /\ sioAdapter = <<>>
  /\ sioRooms = <<>>
  /\ sioRoomKeys = <<>>
  /\ sioOut = <<>>
  /\ sioLast = SioEvent("start", Null, <<>>)

\* socket ids are fresh; they are handed out in the order c1, c2, ...
SioNextConn ==
  "c" \o ToString(1 + Cardinality({s \in Conns : sioState[s] # "NONE"}))

\* io.on("connection")
SioConnection(s) ==
  /\ ~crashed
  /\ sioState[s] = "NONE"
  /\ s = SioNextConn
  /\ sioState' = [sioState EXCEPT ![s] = "CONNECTED"]
  /\ sioAdapter' = socketJoin(sioAdapter, s, s)
  /\ sioOut' = <<>>
  /\ sioLast' = SioEvent("connection", s, <<>>)
  /\ UNCHANGED <<sioSecret, sioRooms, sioRoomKeys, relayVars, bridgeVars,
                 framerVars>>

\* socket.on("join"); nothing inside the try block throws
SioJoin(s, data) ==
  /\ ~crashed
  /\ sioState[s] = "CONNECTED"
  /\ LET roomId == Get(OrEmpty(data), "roomId")
         secret == Get(OrEmpty(data), "secret")
     IN IF ~Truthy(roomId)
        THEN /\ sioOut' = <<Emit({s}, "error", [message |-> "roomId required"])>>
             /\ UNCHANGED <<sioAdapter, sioRooms, sioRoomKeys>>
        ELSE IF Truthy(sioSecret) /\ secret # sioSecret
        THEN /\ sioOut' = <<Emit({s}, "error", [message |-> "invalid secret"])>>
             /\ UNCHANGED <<sioAdapter, sioRooms, sioRoomKeys>>
        ELSE /\ sioAdapter' = socketJoin(sioAdapter, s, roomId)
             /\ sioRooms' = joinRoom(sioRooms, roomId, s)
             /\ sioRoomKeys' = joinRoomKeys(sioRoomKeys, sioRooms, roomId)
             /\ sioOut' =
                  << Emit(socketTo(sioAdapter', s, roomId), "peer-joined",
                          [socketId |-> s]),
                     Emit({s}, "joined",
                          [roomId |-> roomId,
                           participants |-> sioRooms'[roomId] \ {s}]) >>
  /\ sioLast' = SioEvent("join", s, data)
  /\ UNCHANGED <<sioSecret, sioState, relayVars, bridgeVars, framerVars>>

\* socket.on("offer" / "answer" / "ice-candidate"): destructuring a missing
\* argument raises a TypeError that nothing catches
SioRelay(s, event, data) ==
  /\ ~crashed
  /\ sioState[s] = "CONNECTED"
  /\ IF data = NoData
     THEN /\ crashed' = TRUE
          /\ sioOut' = <<>>
     ELSE /\ UNCHANGED crashed
          /\ LET roomId == Get(data, "roomId")
                 body == Get(data, BodyField(event))
                 toSocketId == Get(data, "toSocketId")
                 payload == [k \in {"from", BodyField(event)} |->
                               IF k = "from" THEN s ELSE body]
             IN sioOut' =
                  IF ~Truthy(roomId) \/ ~Truthy(body) THEN <<>>
                  ELSE IF Truthy(toSocketId)
                  THEN <<Emit(ioTo(sioAdapter, toSocketId), event, payload)>>
                  ELSE <<Emit(socketTo(sioAdapter, s, roomId), event, payload)>>
  /\ sioLast' = SioEvent(event, s, data)
  /\ UNCHANGED <<sioSecret, sioState, sioAdapter, sioRooms, sioRoomKeys,
                 relayState, bridgeVars, framerVars>>

\* socket.on("leave")
SioLeave(s, data) ==
  /\ ~crashed
  /\ sioState[s] = "CONNECTED"
  /\ IF data = NoData
     THEN /\ crashed' = TRUE
          /\ sioOut' = <<>>
          /\ UNCHANGED <<sioAdapter, sioRooms, sioRoomKeys>>
     ELSE /\ UNCHANGED crashed
          /\ LET roomId == Get(data, "roomId")
             IN IF Truthy(roomId)
                THEN /\ sioRooms' = leaveRoom(sioRooms, roomId, s)
                     /\ sioRoomKeys' = leaveRoomKeys(sioRoomKeys, sioRooms, roomId, s)
                     /\ sioAdapter' = socketLeave(sioAdapter, s, roomId)
                     /\ sioOut' = <<Emit(socketTo(sioAdapter', s, roomId),
                                         "peer-left", [socketId |-> s])>>
                ELSE /\ sioOut' = <<>>
                     /\ UNCHANGED <<sioAdapter, sioRooms, sioRoomKeys>>
  /\ sioLast' = SioEvent("leave", s, data)
  /\ UNCHANGED <<sioSecret, sioState, relayState, bridgeVars, framerVars>>

\* socket.on("disconnect"): the loop over rooms.entries() visits the rooms
\* in key order; each visit removes only this socket
SioDisconnect(s) ==
  /\ ~crashed
  /\ sioState[s] = "CONNECTED"
  /\ sioState' = [sioState EXCEPT ![s] = "DISCONNECTED"]
  /\ sioAdapter' = leaveAll(sioAdapter, s)
  /\ LET visited == SelectSeq(sioRoomKeys, LAMBDA r : s \in sioRooms[r])
     IN /\ sioRooms' = [r \in {q \in DOMAIN sioRooms : sioRooms[q] \ {s} # {}} |->
                          sioRooms[r] \ {s}]
        /\ sioRoomKeys' = SelectSeq(sioRoomKeys, LAMBDA r : sioRooms[r] \ {s} # {})
        /\ sioOut' = [i \in 1..Len(visited) |->
                        Emit(socketTo(sioAdapter', s, visited[i]), "peer-left",
                             [socketId |-> s])]
  /\ sioLast' = SioEvent("disconnect", s, <<>>)
  /\ UNCHANGED <<sioSecret, relayVars, bridgeVars, framerVars>>

SioNext ==
  \E s \in Conns :
    \/ SioConnection(s)
    \/ \E data \in SioJoinData : SioJoin(s, data)
    \/ \E event \in RelayEvents : \E data \in SioRelayData(event) :
         SioRelay(s, event, data)
    \/ \E data \in SioLeaveData : SioLeave(s, data)
    \/ SioDisconnect(s)

SioSpec == SioInit /\ [][SioNext]_vars

(* --------------------------- bridge properties ------------------------- *)
\* the step is the handling of a config message by server.cjs
ConfigHandled == variant = "config" /\ bridgeLast.op = "message" /\ IsConfig(bridgeLast.msg)

\* a socket the bridge has let go of: it called end() on it, or the socket
\* failed or was closed
Released(k) == sockets[k].ended \/ sockets[k].state \in {"failed", "closed"}

\* C17: once a config message has opened a backend socket for the browser
\* connection, a later config message on it opens no further socket and
\* leaves the socket the pair forwards to unchanged.
C17_BindsOnce ==
  [][(ConfigHandled' /\ unitySocket # 0) =>
       (Len(sockets') = Len(sockets) /\ unitySocket' = unitySocket)]_vars

\* C18: the messages the data handler has sent after any chunking of a
\* stream are the messages it sends when the same bytes arrive as one chunk.
C18_ChunkingIrrelevant == framerOut = dataHandler(<<>>, framerFed).msgs

\* C19: when a backend socket opened for the browser connection has closed
\* the browser connection is no longer open, and when the browser
\* connection has closed every backend socket opened for it is released.
C19_ClosePropagates ==
  /\ \A k \in 1..Len(sockets) : sockets[k].state = "closed" => wsState # "OPEN"
  /\ wsState = "CLOSED" => \A k \in 1..Len(sockets) : Released(k)

\* C20: a backend failure seen while the browser connection is open sends
\* the browser the status envelope that reports it, before anything is
\* closed.
C20_FailureReported ==
  [][(bridgeLast'.op = "error" /\ wsState = "OPEN") =>
       /\ wsSent' = <<StatusEnvelope("Unity connection failed")>>
       /\ wsState' = "OPEN"]_vars

\* C21: once the browser connection of server.cjs has closed, the buffer map
\* holds no entry for any backend socket of the pair.
C21_BuffersCleared ==
  (variant = "config" /\ wsState = "CLOSED") => DOMAIN unityMessageBuffers = {}

\* the backend socket takes what is written to it
Writable(k) == ~sockets[k].ended /\ sockets[k].state \in {"connecting", "open"}

\* C22: in server.cjs a message that is not a config message and arrives
\* while a writable backend socket is bound is written to it once,
\* unmodified and followed by one newline, after everything written
\* before; config messages and messages that arrive while no socket is
\* bound are not written, and nothing else is ever written.
C22_WritesAreTheMessages ==
  [][variant = "config" =>
       IF bridgeLast'.op = "message"
       THEN IF IsConfig(bridgeLast'.msg) \/ unitySocket = 0
            THEN written' = written
            ELSE Writable(unitySocket) =>
                   written' = Append(written,
                                     [sock |-> unitySocket,
                                      data |-> <<bridgeLast'.msg.text, "\n">>])
       ELSE written' = written]_vars

(* --------------------------- framer properties ------------------------- *)
\* the stream content fed so far, as text
FedText == toString(framerFed)

\* the pieces of a text that a newline terminates, and what follows the
\* last newline
RECURSIVE Pieces(_)
Pieces(text) ==
  IF \A i \in 1..Len(text) : text[i] # "\n" THEN <<>>
  ELSE LET n == CHOOSE i \in 1..Len(text) :
                  text[i] = "\n" /\ \A j \in 1..(i - 1) : text[j] # "\n"
       IN <<SubSeq(text, 1, n - 1)>> \o Pieces(SubSeq(text, n + 1, Len(text)))

RECURSIVE Unterminated(_)
Unterminated(text) ==
  IF text = <<>> \/ text[Len(text)] = "\n" THEN <<>>
  ELSE Append(Unterminated(SubSeq(text, 1, Len(text) - 1)), text[Len(text)])

Blank(piece) == \A i \in 1..Len(piece) : piece[i] \in WhiteSpace

\* C23: the framer has sent one message for every piece of the stream that
\* a newline terminates and that is not empty or whitespace-only, and none
\* for any other piece; the tail no newline terminates is in the stored
\* buffer, and the stored buffer contains no newline.
C23_ForwardsCompleteLines ==
  /\ Len(framerOut) =
       Cardinality({i \in 1..Len(Pieces(FedText)) : ~Blank(Pieces(FedText)[i])})
  /\ (framerBuffer = <<>>) <=> (Unterminated(FedText) = <<>>)
  /\ \A i \in 1..Len(framerBuffer) : framerBuffer[i] # "\n"

\* C26: every message the framer has sent is free of leading and trailing
\* whitespace.
C26_ForwardedIsTrimmed ==
  \A i \in 1..Len(framerOut) : framerOut[i] = trim(framerOut[i])

C25_RoundTrip ==
  \A e \in Sent :
    Decode(Encode(e.type, e.payload)) = [type |-> e.type, payload |-> e.payload]

\* C27: for every registered connection, its recorded session is R exactly
\* when its id is in the member set of R, and is null exactly when its id is
\* in no member set.
C27_RegistriesAgree ==
  \A c \in DOMAIN clients :
    /\ \A r \in RoomNames : (clients[c].roomId = r) <=> (clients[c].id \in Members(r))
    /\ (clients[c].roomId = Null) <=> (RoomsOf(clients[c].id) = {})

\* C28: an offer, answer or ice-candidate is delivered to a member of a
\* session only when its sender is in that session's member set.
C28_OnlyMembersReachMembers ==
  LastIsMessage(RelayEvents) =>
    \A e \in Sent : \A r \in RoomsOf(clients[e.to].id) :
      clients[last.conn].id \in Members(r)

PeerLeftSent == {e \in Sent : e.type = "peer-left"}

\* the sender of the join is a member of the session it asks to join
RejoinOf(c, msg) ==
  /\ c \in DOMAIN clients
  /\ clients[c].id \in Members(Get(msg, "roomId"))

\* C30: a peer-left naming X is delivered to a connection only when X was
\* in a session with that connection and is no longer in it after the
\* handler, and a join for the session its sender is already a member of
\* delivers no peer-left and no peer-joined.
C30_NotificationsTrackChanges ==
  [][/\ \A e \in PeerLeftSent' :
          \E r \in DOMAIN rooms :
            /\ e.payload.socketId \in rooms[r]
            /\ clients[e.to].id \in rooms[r]
            /\ e.payload.socketId \notin Members(r)'
     /\ (LastIsMessage({"join"})' /\ RejoinOf(last'.conn, last'.msg)) =>
          \A e \in Sent' : e.type \notin {"peer-left", "peer-joined"}]_vars


(* ------------------------ socket.io variant properties ------------------ *)
SioMembers(r) == IF r \in DOMAIN sioRooms THEN sioRooms[r] ELSE {}

\* the last handler was a relay of a message that names a target
SioLastIsDirected ==
  /\ sioLast.event \in RelayEvents
  /\ sioLast.data # NoData
  /\ Truthy(Get(sioLast.data, "toSocketId"))

\* C24: in the socket.io variant a directed offer / answer / ice-candidate
\* with toSocketId = X is delivered to X only if X is a current member of
\* the session (roomId) the message names; a target outside that session
\* receives nothing.
C24_DirectedStaysInSession ==
  SioLastIsDirected =>
    \A i \in 1..Len(sioOut) : \A x \in sioOut[i].to :
      /\ x = sioLast.data.toSocketId
      /\ x \in SioMembers(Get(sioLast.data, "roomId"))

====
